---- MODULE Spec2Model ----
(***************************************************************************)
(* Web2Droid wizard (src/App.tsx) and its Gemini adapter                   *)
(* (src/services/geminiService.ts).                                        *)
(*                                                                         *)
(* One action models one handler segment that React runs to completion:   *)
(* a click handler, the continuation after an await, or one firing of the  *)
(* setInterval callback up to its first await.  State setters called in    *)
(* one segment are batched, functional updaters (setLogs(prev => ...))     *)
(* compose in call order, so the segment is one atomic step.               *)
(*                                                                         *)
(* JavaScript values that the adapter may deliver with a wrong type or not *)
(* at all are records [t |-> <typeof>, v |-> <rendering>].  App names are  *)
(* sequences of one-character strings, so that String.replace can be       *)
(* modelled character by character.                                        *)
(*                                                                         *)
(* LogEntry.id (Math.random) and LogEntry.timestamp (wall clock) are not   *)
(* modelled; every entry carries instead the number of the run whose       *)
(* closure appended it (history information, never read by an action).     *)
(***************************************************************************)
EXTENDS Integers, Sequences, FiniteSets, TLC

VARIABLES
    step,             \* useState step: 1 Source, 2 Configuration, 3 BuildOutput
    isAnalyzing,      \* useState isAnalyzing
    isBuilding,       \* useState isBuilding
    logs,             \* useState logs: sequence of log entries
    buildReport,      \* useState buildReport
    config,           \* useState config (the fields the handlers read)
    analysis,         \* useState analysis
    mounted,          \* FALSE once a render threw and React unmounted the tree
    pendingAnalyses,  \* analyzeWebInput calls awaiting the adapter
    runs,             \* one record per startBuild call: its closure and timer
    analysisCalls,    \* handleAnalysis calls so far (bounded by MaxAnalyses)
    call              \* the last direct call of a function (SpecFn only)

vars == <<step, isAnalyzing, isBuilding, logs, buildReport, config, analysis,
          mounted, pendingAnalyses, runs, analysisCalls, call>>

appVars == <<step, isAnalyzing, isBuilding, logs, buildReport, config, analysis,
             mounted, pendingAnalyses, runs, analysisCalls>>

----------------------------------------------------------------------------
(* Bounds *)

\* length of the staged step list (10 in the source)
NumSteps == 2
\* startBuild calls in one behaviour
MaxRuns == 2
\* handleAnalysis calls in one behaviour
MaxAnalyses == 2
\* longest app name enumerated for the file name derivation
MaxNameLen == 3
\* longest log handed to generateBuildReport in a direct call
MaxLogLen == 22

----------------------------------------------------------------------------
(* JavaScript values: [t |-> typeof, v |-> sequence of strings].  A string *)
(* is the sequence of its characters, an array of strings the sequence of  *)
(* its elements.                                                           *)

JsString(cs) == [t |-> "string", v |-> cs]
JsBool(b) == [t |-> "boolean", v |-> IF b THEN <<"true">> ELSE <<"false">>]
JsNumber(cs) == [t |-> "number", v |-> cs]
JsArray(a) == [t |-> "array", v |-> a]
Undefined == [t |-> "undefined", v |-> <<>>]
Null == [t |-> "null"]

\* JavaScript truthiness, as used by `result.isPwa ? ... : ...`
Truthy(x) ==
    CASE x.t = "boolean" -> x.v = <<"true">>
      [] x.t = "string" -> x.v # <<>>
      [] x.t = "number" -> x.v \notin {<<"0">>, <<"N", "a", "N">>}
      [] x.t = "array" -> TRUE
      [] OTHER -> FALSE

RECURSIVE Join(_)
\* the text spelled by a sequence of strings
Join(cs) == IF cs = <<>> THEN "" ELSE Head(cs) \o Join(Tail(cs))

\* `${x}` in a template literal
Template(x) ==
    CASE x.t = "undefined" -> "undefined"
      [] x.t = "null" -> "null"
      [] OTHER -> Join(x.v)

----------------------------------------------------------------------------
(* src/unnamed/part_000: the enums and the AnalysisResult record *)

TWA == "Trusted Web Activity (Recommended)"
CAPACITOR == "Capacitor (Native Runtime)"
CORDOVA == "Cordova (Legacy)"
WrapperType == {TWA, CAPACITOR, CORDOVA}

InputTypeURL == "Remote URL"

AnalysisResult(pkg, name, pwa, perms, warns) ==
    [t |-> "object", suggestedPackage |-> pkg, detectedName |-> name,
     isPwa |-> pwa, permissions |-> perms, securityWarnings |-> warns]

----------------------------------------------------------------------------
(* src/services/geminiService.ts *)

\* What `await ai.models.generateContent(...)` can do: reject (network
\* failure, missing credential), or resolve to a response whose `text` is
\* absent, the empty string, text that is not JSON, or a JSON document.
Threw == [threw |-> TRUE]
NoText == [t |-> "undefined"]
EmptyText == [t |-> "string", empty |-> TRUE, parses |-> FALSE]
BadJson == [t |-> "string", empty |-> FALSE, parses |-> FALSE]
JsonText(val) == [t |-> "string", empty |-> FALSE, parses |-> TRUE, value |-> val]
Resolved(text) == [threw |-> FALSE, text |-> text]

\* `if (response.text)`
TextTruthy(text) == text.t = "string" /\ ~text.empty

\* JSON.parse: throws a SyntaxError on text that is not JSON, otherwise the
\* value the document denotes (an object, or null for the document `null`)
JSONparse(text) ==
    IF text.parses THEN [threw |-> FALSE, value |-> text.value] ELSE Threw

\* the object literal of the catch block
AnalysisFallback ==
    AnalysisResult(
        JsString(<<"c", "o", "m", ".", "e", "x", "a", "m", "p", "l", "e", ".",
                   "w", "e", "b", "a", "p", "p">>),
        JsString(<<"M", "y", " ", "W", "e", "b", " ", "A", "p", "p">>),
        JsBool(FALSE),
        JsArray(<<"android.permission.INTERNET">>),
        JsArray(<<>>))

\* analyzeWebInput with JSON.parse outside the try block: the SyntaxError is
\* not caught and no result is returned
analyzeWebInputParseUncaught(input, type, response) ==
    IF response.threw THEN AnalysisFallback
    ELSE IF TextTruthy(response.text)
         THEN LET parsed == JSONparse(response.text)
              IN  IF parsed.threw THEN Null ELSE parsed.value
         ELSE AnalysisFallback

\* analyzeWebInput; response is what the adapter call did.  input and type
\* only go into the prompt.
analyzeWebInput(input, type, response) ==
    IF response.threw THEN AnalysisFallback
    ELSE IF TextTruthy(response.text)
         THEN LET parsed == JSONparse(response.text)
              IN  IF parsed.threw THEN AnalysisFallback ELSE parsed.value
         ELSE AnalysisFallback    \* throw new Error("Empty response from AI")

\* program constant: `logs.slice(-20)`
ReportTail == 20

\* Array.prototype.slice(-n): the last n elements, or all if there are fewer
SliceLast(seq, n) ==
    IF Len(seq) <= n THEN seq ELSE SubSeq(seq, Len(seq) - n + 1, Len(seq))

RECURSIVE JoinLines(_)
\* Array.prototype.join("\n")
JoinLines(seq) ==
    IF seq = <<>> THEN ""
    ELSE IF Len(seq) = 1 THEN seq[1]
    ELSE seq[1] \o "\n" \o JoinLines(Tail(seq))

\* the logSnippet that generateBuildReport puts into its prompt
LogSnippet(messages) == JoinLines(SliceLast(messages, ReportTail))

\* What the second generateContent call can do: reject, or resolve with a
\* text that is absent, empty or a summary.
ReportNoText == [t |-> "undefined", s |-> ""]
ReportText(str) == [t |-> "string", s |-> str]

ReportUnavailable == "Build completed successfully (Report unavailable)."
ReportFailed == "Build completed. See raw logs for details."

\* generateBuildReport with `??` for `||`: the empty text is returned as it is
generateBuildReportNullish(logMessages, response) ==
    IF response.threw THEN ReportFailed
    ELSE IF response.text.t = "string" THEN response.text.s ELSE ReportUnavailable

\* generateBuildReport; response is what the adapter call did.  logMessages
\* only go into the prompt, as LogSnippet(logMessages).
generateBuildReport(logMessages, response) ==
    IF response.threw THEN ReportFailed
    ELSE IF response.text.t = "string" /\ response.text.s # ""
         THEN response.text.s
         ELSE ReportUnavailable

----------------------------------------------------------------------------
(* src/App.tsx *)

AllBuildSteps ==
    << "Initializing Gradle Wrapper...",
       "Validating Android Manifest...",
       "Running preflight checks on Service Worker...",
       "Generating adaptive icons...",
       "Compiling resources (aapt2)...",
       "Transpiling Java/Kotlin sources...",
       "Running lint checks...",
       "Packaging APK...",
       "Signing artifact with debug key...",
       "Zipalign verification..." >>

\* the staged step list, cut to the first NumSteps entries
MOCK_BUILD_STEPS == SubSeq(AllBuildSteps, 1, NumSteps)

\* program constant: targetSdk of the initial configuration
TargetSdk == 34

\* the characters the regular expression class \s matches (those enumerated)
Whitespace == {" ", "\t", "\n"}

RECURSIVE SkipWhitespace(_)
\* the rest of the input after the longest match of \s+ at its start
SkipWhitespace(cs) ==
    IF cs # <<>> /\ Head(cs) \in Whitespace THEN SkipWhitespace(Tail(cs)) ELSE cs

RECURSIVE ReplaceWhitespace(_)
\* String.prototype.replace(/\s+/g, '_'): scanning from the left, every
\* (greedy) match of \s+ is replaced, every other character copied
ReplaceWhitespace(cs) ==
    IF cs = <<>> THEN <<>>
    ELSE IF Head(cs) \in Whitespace
         THEN <<"_">> \o ReplaceWhitespace(SkipWhitespace(cs))
         ELSE <<Head(cs)>> \o ReplaceWhitespace(Tail(cs))

\* the path component with /\s/g for /\s+/g: one underscore per character
PathComponentPerCharacter(cs) ==
    [k \in 1..Len(cs) |-> IF cs[k] \in Whitespace THEN "_" ELSE cs[k]]

\* the path component `config.appName.replace(/\s+/g, '_')`
PathComponent(cs) == ReplaceWhitespace(cs)

\* the second terminal message
OutputMessage(cs) == "Output: dist/" \o Join(PathComponent(cs)) \o "-release.apk"

WarningMessage ==
    "Warning: Uses cleartext traffic (HTTP) - ensure security config allows this."

\* addLog with setLogs([entry]) for setLogs(prev => [...prev, entry])
addLogDropsPrevious(log, message, level, run) ==
    <<[level |-> level, message |-> message, run |-> run]>>

\* addLog: append one entry (run: which startBuild closure appended it)
addLog(log, message, level, run) ==
    Append(log, [level |-> level, message |-> message, run |-> run])

\* logs.map(l => l.message)
Messages(log) == [k \in 1..Len(log) |-> log[k].message]

\* what the user can type into the source field
InputValues == {"https://myapp.com"}

\* the documents the analysis adapter answers with in a whole-application run:
\* a PWA, a document that lacks detectedName, and the document `null`
ShopPackage == JsString(<<"c", "o", "m", ".", "s", "h", "o", "p">>)
ShopName == JsString(<<"M", "y", " ", " ", "S", "h", "o", "p">>)
ShopPermissions == JsArray(<<"INTERNET", "CAMERA">>)
AnalysisDocuments ==
    { AnalysisResult(ShopPackage, ShopName, JsBool(TRUE), ShopPermissions, JsArray(<<>>)),
      AnalysisResult(ShopPackage, Undefined, JsBool(TRUE), ShopPermissions, JsArray(<<>>)),
      Null }

AnalysisResponses ==
    {Threw, Resolved(NoText), Resolved(EmptyText), Resolved(BadJson)}
        \cup {Resolved(JsonText(d)) : d \in AnalysisDocuments}

ReportResponses ==
    {Threw, Resolved(ReportNoText), Resolved(ReportText("")),
     Resolved(ReportText("## Build Summary"))}

NoCall == [op |-> "none"]

Init ==
    /\ step = 1
    /\ isAnalyzing = FALSE
    /\ isBuilding = FALSE
    /\ logs = <<>>
    /\ buildReport = ""
    /\ config = [inputType |-> InputTypeURL, inputValue |-> "", wrapper |-> TWA,
                 packageName |-> JsString(<<>>), appName |-> JsString(<<>>),
                 targetSdk |-> TargetSdk]
    /\ analysis = Null
    /\ mounted = TRUE
    /\ pendingAnalyses = 0
    /\ runs = <<>>
    /\ analysisCalls = 0
    /\ call = NoCall

\* renderStep1, the source field: setConfig({...config, inputValue})
SetInputValue(value) ==
    /\ mounted /\ step = 1
    /\ config' = [config EXCEPT !.inputValue = value]
    /\ UNCHANGED <<step, isAnalyzing, isBuilding, logs, buildReport, analysis,
                   mounted, pendingAnalyses, runs, analysisCalls, call>>

\* handleAnalysis up to its await.  The button that calls it is rendered by
\* renderStep1 with disabled={!config.inputValue}.  The handler does not test
\* isAnalyzing, and what the Button component does with isLoading is not part
\* of the source, so a second call before the first has resolved is possible.
HandleAnalysis ==
    /\ mounted /\ step = 1
    /\ config.inputValue # ""
    /\ analysisCalls < MaxAnalyses
    /\ analysisCalls' = analysisCalls + 1
    /\ isAnalyzing' = TRUE
    /\ logs' = <<>>
    /\ pendingAnalyses' = pendingAnalyses + 1
    /\ UNCHANGED <<step, isBuilding, buildReport, config, analysis, mounted, runs, call>>

\* renderStep2 evaluates `analysis.permissions.length > 0 &&
\* analysis.permissions.map(...)`: it throws unless permissions has a length
\* and, when the length is positive, a map method
RendersStep2(result) ==
    /\ result.permissions.t \notin {"undefined", "null"}
    /\ ~(result.permissions.t = "string" /\ result.permissions.v # <<>>)

\* AnalysisResolved without the wrapper default: setConfig keeps prev.wrapper
AnalysisResolvedKeepsWrapper(response) ==
    /\ mounted
    /\ pendingAnalyses > 0
    /\ pendingAnalyses' = pendingAnalyses - 1
    /\ LET result == analyzeWebInput(config.inputValue, config.inputType, response)
       IN  IF result.t = "object" /\ RendersStep2(result)
           THEN /\ analysis' = result
                /\ config' = [config EXCEPT
                                !.packageName = result.suggestedPackage,
                                !.appName = result.detectedName]
                /\ step' = 2
                /\ isAnalyzing' = FALSE
                /\ UNCHANGED mounted
           ELSE /\ mounted' = FALSE
                /\ UNCHANGED <<analysis, config, step, isAnalyzing>>
    /\ UNCHANGED <<isBuilding, logs, buildReport, runs, analysisCalls, call>>

\* handleAnalysis after its await.  analyzeWebInput never rejects, so the catch
\* block is not entered from the await.  The updater passed to setConfig reads
\* result.suggestedPackage when React renders: with result = null it throws a
\* TypeError in the render, as does renderStep2 on a result it cannot show,
\* and React unmounts the tree (there is no error boundary): no handler of the
\* page runs any more and no state is shown.
AnalysisResolved(response) ==
    /\ mounted
    /\ pendingAnalyses > 0
    /\ pendingAnalyses' = pendingAnalyses - 1
    /\ LET result == analyzeWebInput(config.inputValue, config.inputType, response)
       IN  IF result.t = "object" /\ RendersStep2(result)
           THEN /\ analysis' = result
                /\ config' = [config EXCEPT
                                !.packageName = result.suggestedPackage,
                                !.appName = result.detectedName,
                                !.wrapper = IF Truthy(result.isPwa) THEN TWA ELSE CAPACITOR]
                /\ step' = 2
                /\ isAnalyzing' = FALSE
                /\ UNCHANGED mounted
           ELSE /\ mounted' = FALSE
                /\ UNCHANGED <<analysis, config, step, isAnalyzing>>
    /\ UNCHANGED <<isBuilding, logs, buildReport, runs, analysisCalls, call>>

\* renderStep2, Back
Back ==
    /\ mounted /\ step = 2
    /\ step' = 1
    /\ UNCHANGED <<isAnalyzing, isBuilding, logs, buildReport, config, analysis,
                   mounted, pendingAnalyses, runs, analysisCalls, call>>

\* the header entries with the wrapper entry before the package entry
HeadersWrapperFirst(cfg, run) ==
    LET l1 == addLog(<<>>, "Wrapper: " \o cfg.wrapper, "info", run)
        l2 == addLog(l1, "Starting build pipeline for " \o Template(cfg.packageName)
                             \o "...", "info", run)
    IN  addLog(l2, "Target SDK: " \o ToString(cfg.targetSdk), "info", run)

\* the three header entries startBuild appends
Headers(cfg, run) ==
    LET l1 == addLog(<<>>, "Starting build pipeline for " \o Template(cfg.packageName)
                               \o "...", "info", run)
        l2 == addLog(l1, "Wrapper: " \o cfg.wrapper, "info", run)
    IN  addLog(l2, "Target SDK: " \o ToString(cfg.targetSdk), "info", run)

\* startBuild up to setInterval.  The button that calls it is rendered by
\* renderStep2.  The callback closes over `config` and `logs` of the render it
\* was created in; no timer of an earlier call is cleared.
StartBuild ==
    /\ mounted /\ step = 2
    /\ Len(runs) < MaxRuns
    /\ LET run == Len(runs) + 1
       IN  /\ step' = 3
           /\ isBuilding' = TRUE
           /\ logs' = Headers(config, run)
           /\ buildReport' = ""
           /\ runs' = Append(runs,
                  [config |-> config, logs |-> logs, i |-> 0, timer |-> TRUE,
                   status |-> "running", appended |-> Headers(config, run),
                   request |-> ""])
    /\ UNCHANGED <<isAnalyzing, config, analysis, mounted, pendingAnalyses, analysisCalls, call>>

\* TickStep with `i++` only on the path without a warning
TickStepWarningKeepsCursor(r, warn) ==
    /\ mounted
    /\ r \in 1..Len(runs)
    /\ runs[r].timer
    /\ runs[r].i < Len(MOCK_BUILD_STEPS)
    /\ LET warned(log) == IF warn THEN addLog(log, WarningMessage, "warn", r) ELSE log
           stepped(log) == addLog(warned(log), MOCK_BUILD_STEPS[runs[r].i + 1], "info", r)
       IN  /\ logs' = stepped(logs)
           /\ runs' = [runs EXCEPT ![r].i = IF warn THEN @ ELSE @ + 1,
                                   ![r].appended = stepped(@)]
    /\ UNCHANGED <<step, isAnalyzing, isBuilding, buildReport, config, analysis,
                   mounted, pendingAnalyses, analysisCalls, call>>

\* TickStep with the warning appended after the step entry
TickStepWarningAfterStep(r, warn) ==
    /\ mounted
    /\ r \in 1..Len(runs)
    /\ runs[r].timer
    /\ runs[r].i < Len(MOCK_BUILD_STEPS)
    /\ LET stepped(log) == addLog(log, MOCK_BUILD_STEPS[runs[r].i + 1], "info", r)
           warned(log) == IF warn THEN addLog(stepped(log), WarningMessage, "warn", r)
                          ELSE stepped(log)
       IN  /\ logs' = warned(logs)
           /\ runs' = [runs EXCEPT ![r].i = @ + 1,
                                   ![r].appended = warned(@)]
    /\ UNCHANGED <<step, isAnalyzing, isBuilding, buildReport, config, analysis,
                   mounted, pendingAnalyses, analysisCalls, call>>

\* TickStep with the warning taking the place of the step entry
TickStepWarningReplacesStep(r, warn) ==
    /\ mounted
    /\ r \in 1..Len(runs)
    /\ runs[r].timer
    /\ runs[r].i < Len(MOCK_BUILD_STEPS)
    /\ LET stepped(log) ==
               IF warn THEN addLog(log, WarningMessage, "warn", r)
               ELSE addLog(log, MOCK_BUILD_STEPS[runs[r].i + 1], "info", r)
       IN  /\ logs' = stepped(logs)
           /\ runs' = [runs EXCEPT ![r].i = @ + 1,
                                   ![r].appended = stepped(@)]
    /\ UNCHANGED <<step, isAnalyzing, isBuilding, buildReport, config, analysis,
                   mounted, pendingAnalyses, analysisCalls, call>>

\* one firing of the interval callback while steps remain; warn is the
\* outcome of `Math.random() > 0.8`
TickStep(r, warn) ==
    /\ mounted
    /\ r \in 1..Len(runs)
    /\ runs[r].timer
    /\ runs[r].i < Len(MOCK_BUILD_STEPS)
    /\ LET warned(log) == IF warn THEN addLog(log, WarningMessage, "warn", r) ELSE log
           stepped(log) == addLog(warned(log), MOCK_BUILD_STEPS[runs[r].i + 1], "info", r)
       IN  /\ logs' = stepped(logs)
           /\ runs' = [runs EXCEPT ![r].i = @ + 1,
                                   ![r].appended = stepped(@)]
    /\ UNCHANGED <<step, isAnalyzing, isBuilding, buildReport, config, analysis,
                   mounted, pendingAnalyses, analysisCalls, call>>

\* TickFinish reading the configuration of the latest render instead of the
\* one its closure captured
TickFinishReadsCurrentConfig(r) ==
    /\ mounted
    /\ r \in 1..Len(runs)
    /\ runs[r].timer
    /\ runs[r].i >= Len(MOCK_BUILD_STEPS)
    /\ LET name == config.appName
           first(log) == addLog(log, "Build Successful!", "success", r)
           both(log) == addLog(first(log), OutputMessage(name.v), "success", r)
       IN  IF name.t = "string"
           THEN /\ logs' = both(logs)
                /\ isBuilding' = FALSE
                /\ runs' = [runs EXCEPT
                              ![r].timer = FALSE,
                              ![r].status = "reporting",
                              ![r].appended = both(@),
                              ![r].request = LogSnippet(Messages(runs[r].logs))]
           ELSE /\ logs' = first(logs)
                /\ UNCHANGED isBuilding
                /\ runs' = [runs EXCEPT
                              ![r].timer = FALSE,
                              ![r].status = "threw",
                              ![r].appended = first(@)]
    /\ UNCHANGED <<step, isAnalyzing, buildReport, config, analysis, mounted,
                   pendingAnalyses, analysisCalls, call>>

\* TickFinish without clearInterval: the terminal branch runs at every later
\* firing as well
TickFinishKeepsTimer(r) ==
    /\ mounted
    /\ r \in 1..Len(runs)
    /\ runs[r].timer
    /\ runs[r].i >= Len(MOCK_BUILD_STEPS)
    /\ runs[r].config.appName.t = "string"
    /\ Len(runs[r].appended) < 3 + 2 * NumSteps + 4
    /\ LET both(log) ==
               addLog(addLog(log, "Build Successful!", "success", r),
                      OutputMessage(runs[r].config.appName.v), "success", r)
       IN  /\ logs' = both(logs)
           /\ isBuilding' = FALSE
           /\ runs' = [runs EXCEPT
                         ![r].status = "reporting",
                         ![r].appended = both(@),
                         ![r].request = LogSnippet(Messages(runs[r].logs))]
    /\ UNCHANGED <<step, isAnalyzing, buildReport, config, analysis, mounted,
                   pendingAnalyses, analysisCalls, call>>

\* the firing of the interval callback once the steps are exhausted, up to its
\* await.  `config.appName.replace` throws a TypeError unless appName is a
\* string: the callback then ends after the first addLog.
TickFinish(r) ==
    /\ mounted
    /\ r \in 1..Len(runs)
    /\ runs[r].timer
    /\ runs[r].i >= Len(MOCK_BUILD_STEPS)
    /\ LET name == runs[r].config.appName
           first(log) == addLog(log, "Build Successful!", "success", r)
           both(log) == addLog(first(log), OutputMessage(name.v), "success", r)
       IN  IF name.t = "string"
           THEN /\ logs' = both(logs)
                /\ isBuilding' = FALSE
                /\ runs' = [runs EXCEPT
                              ![r].timer = FALSE,
                              ![r].status = "reporting",
                              ![r].appended = both(@),
                              ![r].request = LogSnippet(Messages(runs[r].logs))]
           ELSE /\ logs' = first(logs)
                /\ UNCHANGED isBuilding
                /\ runs' = [runs EXCEPT
                              ![r].timer = FALSE,
                              ![r].status = "threw",
                              ![r].appended = first(@)]
    /\ UNCHANGED <<step, isAnalyzing, buildReport, config, analysis, mounted,
                   pendingAnalyses, analysisCalls, call>>

\* ReportResolved with setIsBuilding(false) after the await instead of before
ReportResolvedResetsIsBuilding(r, response) ==
    /\ mounted
    /\ r \in 1..Len(runs)
    /\ runs[r].status = "reporting"
    /\ buildReport' = generateBuildReport(Messages(runs[r].logs), response)
    /\ isBuilding' = FALSE
    /\ runs' = [runs EXCEPT ![r].status = "done"]
    /\ UNCHANGED <<step, isAnalyzing, logs, config, analysis, mounted,
                   pendingAnalyses, analysisCalls, call>>

\* the interval callback after `await generateBuildReport(...)`
ReportResolved(r, response) ==
    /\ mounted
    /\ r \in 1..Len(runs)
    /\ runs[r].status = "reporting"
    /\ buildReport' = generateBuildReport(Messages(runs[r].logs), response)
    /\ runs' = [runs EXCEPT ![r].status = "done"]
    /\ UNCHANGED <<step, isAnalyzing, isBuilding, logs, config, analysis, mounted,
                   pendingAnalyses, analysisCalls, call>>

\* renderStep3, Configure: rendered only while isBuilding is false
Configure ==
    /\ mounted /\ step = 3
    /\ ~isBuilding
    /\ step' = 2
    /\ UNCHANGED <<isAnalyzing, isBuilding, logs, buildReport, config, analysis,
                   mounted, pendingAnalyses, runs, analysisCalls, call>>

Next ==
    \/ \E value \in InputValues : SetInputValue(value)
    \/ HandleAnalysis
    \/ \E response \in AnalysisResponses : AnalysisResolved(response)
    \/ Back
    \/ StartBuild
    \/ \E r \in 1..MaxRuns, warn \in BOOLEAN : TickStep(r, warn)
    \/ \E r \in 1..MaxRuns : TickFinish(r)
    \/ \E r \in 1..MaxRuns, response \in ReportResponses : ReportResolved(r, response)
    \/ Configure

Spec == Init /\ [][Next]_vars

----------------------------------------------------------------------------
(* Direct calls of the functions, on enumerated arguments *)

\* every document the adapter can answer with: each field present and well
\* typed, absent, or of another type; and the document `null`
FnDocuments ==
    { AnalysisResult(pkg, name, pwa, perms, warns) :
        pkg \in {ShopPackage, Undefined},
        name \in {ShopName, Undefined, JsNumber(<<"4", "2">>)},
        pwa \in {JsBool(TRUE), JsBool(FALSE), Undefined, JsString(<<"y", "e", "s">>)},
        perms \in {ShopPermissions, Undefined},
        warns \in {JsArray(<<>>), Undefined} }
      \cup {Null, AnalysisFallback}

FnAnalysisResponses ==
    {Threw, Resolved(NoText), Resolved(EmptyText), Resolved(BadJson)}
        \cup {Resolved(JsonText(d)) : d \in FnDocuments}

FnReportResponses ==
    ReportResponses \cup {Resolved(ReportText(ReportUnavailable)),
                          Resolved(ReportText(ReportFailed))}

\* a log of n messages
NumberedLog(n) == [k \in 1..n |-> "line " \o ToString(k)]

NameAlphabet == {"a", "_", " ", "\t"}
MyCoolApp == <<"M", "y", " ", "C", "o", "o", "l", " ", "A", "p", "p">>
My_Cool_App == <<"M", "y", "_", "C", "o", "o", "l", "_", "A", "p", "p">>
Foo == <<"F", "o", "o">>
Names ==
    UNION {[1..n -> NameAlphabet] : n \in 0..MaxNameLen} \cup {MyCoolApp, Foo}

CallAnalyze(input, response) ==
    /\ call' = [op |-> "analyze", input |-> input, response |-> response,
                result |-> analyzeWebInput(input, InputTypeURL, response)]
    /\ UNCHANGED appVars

CallReport(n, response) ==
    /\ call' = [op |-> "report", logs |-> NumberedLog(n), response |-> response,
                prompt |-> LogSnippet(NumberedLog(n)),
                result |-> generateBuildReport(NumberedLog(n), response)]
    /\ UNCHANGED appVars

CallReplace(name) ==
    /\ call' = [op |-> "replace", name |-> name, result |-> PathComponent(name)]
    /\ UNCHANGED appVars

NextFn ==
    \/ \E input \in InputValues \cup {""}, response \in FnAnalysisResponses :
          CallAnalyze(input, response)
    \/ \E n \in 0..MaxLogLen, response \in FnReportResponses : CallReport(n, response)
    \/ \E name \in Names : CallReplace(name)

SpecFn == Init /\ [][NextFn]_vars

----------------------------------------------------------------------------
(* Properties *)

\* run r has reached Completed: its terminal firing called setIsBuilding(false)
Completed(r) == runs[r].status \in {"reporting", "done"}

\* this step is the terminal firing of run r that reaches Completed
Completes(r) == runs[r].status = "running" /\ runs'[r].status = "reporting"

OfLevel(log, level) == SelectSeq(log, LAMBDA e : e.level = level)

\* C1 as stated: when a run reaches Completed, the info entries of the log
\* stream are exactly the L staged steps, in order.
C1_InfoEntriesAreStagedList ==
    [][\A r \in 1..Len(runs) :
          Completes(r) => Messages(OfLevel(logs', "info")) = MOCK_BUILD_STEPS]_vars

\* C1 amended: the three headers are info entries too.  Once a run has reached
\* Completed, the info entries it has appended are exactly L + 3: its three
\* headers, then the staged steps in their original order, whatever warnings
\* were injected.
C1_InfoEntriesAreHeadersThenSteps ==
    \A r \in 1..Len(runs) :
        Completed(r) =>
            Messages(OfLevel(runs[r].appended, "info"))
                = Messages(Headers(runs[r].config, r)) \o MOCK_BUILD_STEPS

\* a completed run that injected a warning at every tick
C1_Witness ==
    \E r \in 1..Len(runs) :
        /\ Completed(r)
        /\ Len(OfLevel(runs[r].appended, "warn")) = NumSteps
        /\ Len(OfLevel(runs[r].appended, "info")) = NumSteps + 3

\* C2: a completed run has appended exactly two success entries, "Build
\* Successful!" and then the output path of its app name, and they are the last
\* entries it has appended, in every state after completion.
C2_TwoSuccessEntriesLast ==
    \A r \in 1..Len(runs) :
        Completed(r) =>
            LET a == runs[r].appended
                n == Len(a)
            IN  /\ n >= 2
                /\ a[n - 1] = [level |-> "success", message |-> "Build Successful!",
                               run |-> r]
                /\ a[n] = [level |-> "success", run |-> r,
                           message |-> "Output: dist/"
                               \o Join(PathComponent(runs[r].config.appName.v))
                               \o "-release.apk"]
                /\ Len(OfLevel(a, "success")) = 2

\* a completed run whose report has arrived while another run was started
C2_Witness ==
    /\ Len(runs) = 2
    /\ runs[1].status = "done"
    /\ Len(OfLevel(runs[1].appended, "success")) = 2

\* C3: no entry of an earlier run follows an entry of a later run in the log
\* stream.
C3_NoCrossRunInterleaving ==
    \A j, k \in 1..Len(logs) : j < k => logs[j].run <= logs[k].run

\* C4: the step changes only by the four transitions of the table, each taken
\* from the step that offers it.
C4_OnlyValidTransitions ==
    [][step' # step =>
          \/ step = 1 /\ step' = 2 /\ \E response \in AnalysisResponses :
                                          AnalysisResolved(response)
          \/ step = 2 /\ step' = 1 /\ Back
          \/ step = 2 /\ step' = 3 /\ StartBuild
          \/ step = 3 /\ step' = 2 /\ Configure]_vars

\* the log of a run of r alone that injects no warning
QuietLog(r) ==
    LET steps == [k \in 1..NumSteps |->
                     [level |-> "info", message |-> MOCK_BUILD_STEPS[k], run |-> r]]
        done == addLog(Headers(runs[r].config, r) \o steps, "Build Successful!",
                       "success", r)
    IN  addLog(done, OutputMessage(runs[r].config.appName.v), "success", r)

\* C5: a run that injected no warning leaves, on reaching Completed, the three
\* headers, the staged steps in order and the two success entries, and nothing
\* else, in the log stream.
C5_QuietRunLog ==
    [][\A r \in 1..Len(runs) :
          Completes(r) /\ OfLevel(runs'[r].appended, "warn") = <<>>
              => logs' = QuietLog(r)]_vars

\* the adapter call failed: it rejected, or its response has no text, the
\* empty text, or text that is not JSON
AdapterFailed(response) ==
    \/ response.threw
    \/ ~TextTruthy(response.text)
    \/ ~response.text.parses

ComExampleWebapp ==
    <<"c", "o", "m", ".", "e", "x", "a", "m", "p", "l", "e", ".", "w", "e", "b", "a",
      "p", "p">>
MyWebApp == <<"M", "y", " ", "W", "e", "b", " ", "A", "p", "p">>

\* C6 as stated: on every failure of the adapter call the result is the
\* fallback whose permissions are ["INTERNET"].
C6_FallbackWithShortPermission ==
    call.op = "analyze" /\ AdapterFailed(call.response) =>
        call.result =
            [t |-> "object",
             suggestedPackage |-> [t |-> "string", v |-> ComExampleWebapp],
             detectedName |-> [t |-> "string", v |-> MyWebApp],
             isPwa |-> [t |-> "boolean", v |-> <<"false">>],
             permissions |-> [t |-> "array", v |-> <<"INTERNET">>],
             securityWarnings |-> [t |-> "array", v |-> <<>>]]

\* C6 amended: on every failure of the adapter call, for every input, the
\* result is the complete fallback {suggestedPackage: "com.example.webapp",
\* detectedName: "My Web App", isPwa: false, permissions:
\* ["android.permission.INTERNET"], securityWarnings: []}; it is never null or
\* partial, and no error leaves the function.
C6_FallbackOnAdapterFailure ==
    call.op = "analyze" /\ AdapterFailed(call.response) =>
        call.result =
            [t |-> "object",
             suggestedPackage |-> [t |-> "string", v |-> ComExampleWebapp],
             detectedName |-> [t |-> "string", v |-> MyWebApp],
             isPwa |-> [t |-> "boolean", v |-> <<"false">>],
             permissions |-> [t |-> "array", v |-> <<"android.permission.INTERNET">>],
             securityWarnings |-> [t |-> "array", v |-> <<>>]]

\* analyzeWebInput was called on an empty input and the response was not JSON
C6_Witness ==
    /\ call.op = "analyze"
    /\ call.input = ""
    /\ call.response = Resolved(BadJson)
    /\ call.result.permissions.v = <<"android.permission.INTERNET">>

\* C7: generateBuildReport returns the "unavailable" text when the call
\* succeeds with an empty or absent text, the "see raw logs" text when the call
\* fails, and the adapter's text otherwise; "unavailable" is never the answer
\* to a failed call.
C7_ReportFallbacks ==
    call.op = "report" =>
        LET response == call.response
            result == call.result
            unavailable == "Build completed successfully (Report unavailable)."
            failed == "Build completed. See raw logs for details."
        IN  /\ response.threw => result = failed
            /\ ~response.threw /\ response.text.t = "undefined" => result = unavailable
            /\ ~response.threw /\ response.text.t = "string" /\ response.text.s = ""
                   => result = unavailable
            /\ ~response.threw /\ response.text.t = "string" /\ response.text.s # ""
                   => result = response.text.s
            /\ result = unavailable => ~response.threw
            /\ result = failed =>
                   response.threw \/ response.text = ReportText(failed)

\* generateBuildReport was called and the adapter resolved with the empty text
C7_Witness ==
    /\ call.op = "report"
    /\ call.response = Resolved(ReportText(""))
    /\ call.result = "Build completed successfully (Report unavailable)."

\* the positions of cs that survive: every character that is not whitespace,
\* and the first character of every maximal run of whitespace
KeptPositions(cs) ==
    SelectSeq([k \in 1..Len(cs) |-> k],
              LAMBDA k : cs[k] \notin Whitespace \/ k = 1 \/ cs[k - 1] \notin Whitespace)

\* cs with every maximal run of whitespace replaced by one underscore
RunsCollapsed(cs) ==
    LET kept == KeptPositions(cs)
    IN  [j \in 1..Len(kept) |->
            IF cs[kept[j]] \in Whitespace THEN "_" ELSE cs[kept[j]]]

\* C8: the path component is the app name with every maximal run of whitespace
\* replaced by a single underscore and all other characters unchanged; a name
\* without whitespace is unchanged; "My Cool App" gives My_Cool_App and "Foo"
\* gives Foo.
C8_PathComponent ==
    call.op = "replace" =>
        /\ call.result = RunsCollapsed(call.name)
        /\ (\A k \in 1..Len(call.name) : call.name[k] \notin Whitespace)
               => call.result = call.name
        /\ call.name = MyCoolApp => call.result = My_Cool_App
        /\ call.name = Foo => call.result = Foo

\* a name with a run of two whitespace characters was converted
C8_Witness ==
    /\ call.op = "replace"
    /\ \E k \in 1..(Len(call.name) - 1) :
           call.name[k] \in Whitespace /\ call.name[k + 1] \in Whitespace
    /\ Len(call.result) < Len(call.name)

\* C9: the report request of a run that reaches Completed carries the last 20
\* messages of the log as it stands after the two success entries.
C9_ReportFromFinalLog ==
    [][\A r \in 1..Len(runs) :
          Completes(r) => runs'[r].request = LogSnippet(Messages(logs'))]_vars

\* the document has every required field with the type of the schema
SchemaValid(doc) ==
    /\ doc.t = "object"
    /\ doc.suggestedPackage.t = "string"
    /\ doc.detectedName.t = "string"
    /\ doc.isPwa.t = "boolean"
    /\ doc.permissions.t = "array"
    /\ doc.securityWarnings.t = "array"

\* C10: a response that is well-formed JSON but violates the schema yields the
\* fixed fallback.
C10_SchemaViolationFallsBack ==
    (/\ call.op = "analyze"
     /\ ~call.response.threw
     /\ TextTruthy(call.response.text)
     /\ call.response.text.parses
     /\ ~SchemaValid(call.response.text.value))
        => call.result = AnalysisFallback

\* run r is Running: its interval is still pending
Running(r) == runs[r].timer

\* C11: the step never changes from BuildOutput to Configuration while a build
\* run is Running, whether by Configure or by an analysis that resolves.
C11_NoConfigurationWhileRunning ==
    [][step = 3 /\ step' = 2 => \A r \in 1..Len(runs) : ~Running(r)]_vars

\* C12: whatever the adapter answered, the analysis that resolves leaves the
\* workflow in Configuration with the analyzing flag reset.
C12_AnalysisReachesConfiguration ==
    [][\A response \in AnalysisResponses :
          AnalysisResolved(response) => step' = 2 /\ isAnalyzing' = FALSE]_vars

\* C13: a step from Source to Configuration is taken by an analysis call that
\* resolves in that step, and it leaves the wrapper TWA if the result's isPwa
\* holds and CAPACITOR otherwise, and packageName and appName equal to the
\* result's suggestedPackage and detectedName.
C13_SourceToConfiguration ==
    [][step = 1 /\ step' = 2 =>
          /\ pendingAnalyses > 0
          /\ pendingAnalyses' = pendingAnalyses - 1
          /\ analysis'.t = "object"
          /\ config'.wrapper = (IF Truthy(analysis'.isPwa) THEN TWA ELSE CAPACITOR)
          /\ config'.packageName = analysis'.suggestedPackage
          /\ config'.appName = analysis'.detectedName]_vars

\* Configuration reached with the fallback result: the wrapper is CAPACITOR
C13_Witness ==
    /\ step = 2
    /\ analysis = AnalysisFallback
    /\ config.wrapper = CAPACITOR
    /\ config.packageName = JsString(ComExampleWebapp)
    /\ config.appName = JsString(MyWebApp)

\* the staged step entries run r has appended: its info entries after the
\* three headers
StagedEntries(r) ==
    LET a == runs[r].appended
    IN  Messages(OfLevel(SubSeq(a, 4, Len(a)), "info"))

\* C14: at every step, the staged step entries a run has appended are the first
\* i steps of the staged list in its order, i being the run's cursor, whatever
\* ticks injected a warning; the cursor never exceeds the length of the list,
\* is at the end of the list once the timer is cleared, and every non-terminal
\* tick advances it by exactly one.
C14_StagedStepsInOrder ==
    [][/\ \A r \in 1..Len(runs') :
              /\ runs'[r].i <= Len(MOCK_BUILD_STEPS)
              /\ StagedEntries(r)' = SubSeq(MOCK_BUILD_STEPS, 1, runs'[r].i)
              /\ ~runs'[r].timer => runs'[r].i = Len(MOCK_BUILD_STEPS)
       /\ \A r \in 1..Len(runs) :
              /\ runs'[r].i \in {runs[r].i, runs[r].i + 1}
              /\ (\E warn \in BOOLEAN : TickStep(r, warn)) => runs'[r].i = runs[r].i + 1]_vars

\* a completed run in which one tick injected a warning and another did not
C14_Witness ==
    \E r \in 1..Len(runs) :
        /\ Completed(r)
        /\ Len(OfLevel(runs[r].appended, "warn")) = 1
        /\ runs[r].appended[4].level = "warn"
        /\ StagedEntries(r) = MOCK_BUILD_STEPS

\* C15: the tick that stops a run's timer leaves that run Completed, with
\* isBuilding false, and a run whose timer is stopped appends nothing more.
C15_TerminalTickCompletes ==
    [][\A r \in 1..Len(runs) :
          /\ runs[r].timer /\ ~runs'[r].timer => Completed(r)' /\ ~isBuilding'
          /\ ~runs[r].timer => runs'[r].appended = runs[r].appended]_vars

\* every warn entry of log is immediately followed by a staged step entry of
\* the same run
WarnsPrecedeSteps(log) ==
    \A k \in 1..Len(log) :
        log[k].level = "warn" =>
            /\ log[k].message = WarningMessage
            /\ k < Len(log)
            /\ log[k + 1].level = "info"
            /\ log[k + 1].run = log[k].run
            /\ \E s \in 1..Len(MOCK_BUILD_STEPS) : log[k + 1].message = MOCK_BUILD_STEPS[s]

\* C16: in what a run has appended, and in the log stream, every warn entry is
\* immediately followed by a staged step entry (so no two warn entries are
\* adjacent); a run has at most one warn entry per tick taken, hence at most L,
\* and its staged step entries are the first i steps of the list, none skipped
\* or repeated.
C16_WarnBeforeStepEntry ==
    /\ WarnsPrecedeSteps(logs)
    /\ \A r \in 1..Len(runs) :
           /\ WarnsPrecedeSteps(runs[r].appended)
           /\ Len(OfLevel(runs[r].appended, "warn")) <= runs[r].i
           /\ runs[r].i <= Len(MOCK_BUILD_STEPS)
           /\ StagedEntries(r) = SubSeq(MOCK_BUILD_STEPS, 1, runs[r].i)

\* two overlapping runs: a warning of the first run enters the stream after an
\* entry of the second
C16_Witness ==
    \E j, k \in 1..Len(logs) :
        /\ j < k
        /\ logs[j].run = 2
        /\ logs[k].run = 1
        /\ logs[k].level = "warn"

\* the three entries the claim expects from a start with configuration cfg
HeaderEntries(cfg, run) ==
    << [level |-> "info", run |-> run,
        message |-> "Starting build pipeline for " \o Template(cfg.packageName) \o "..."],
       [level |-> "info", run |-> run, message |-> "Wrapper: " \o cfg.wrapper],
       [level |-> "info", run |-> run,
        message |-> "Target SDK: " \o ToString(cfg.targetSdk)] >>

\* C17: the step that starts a run leaves in the log stream exactly the three
\* header entries for packageName, wrapper and targetSdk of the configuration
\* at that moment, in this order; they stay the first three entries the run
\* has appended, and every later entry of the run is a step, warning or
\* terminal entry.
C17_HeadersFirst ==
    [][/\ Len(runs') = Len(runs) + 1 =>
              /\ logs' = HeaderEntries(config, Len(runs'))
              /\ runs'[Len(runs')].appended = logs'
       /\ \A r \in 1..Len(runs) :
              /\ SubSeq(runs'[r].appended, 1, 3) = HeaderEntries(runs[r].config, r)
              /\ \A k \in 4..Len(runs'[r].appended) :
                     \/ runs'[r].appended[k].level \in {"warn", "success"}
                     \/ \E s \in 1..Len(MOCK_BUILD_STEPS) :
                            runs'[r].appended[k].message = MOCK_BUILD_STEPS[s]]_vars

\* a second run started with the fallback configuration: the stream holds its
\* three headers and nothing of the first run
C17_Witness ==
    /\ Len(runs) = 2
    /\ Len(logs) = 3
    /\ logs[1].run = 2
    /\ logs[2].message = "Wrapper: " \o CAPACITOR
    /\ logs[3].message = "Target SDK: 34"

\* a is a prefix of b
IsPrefix(a, b) == Len(a) <= Len(b) /\ SubSeq(b, 1, Len(a)) = a

\* C18 as stated: every step either keeps the log stream as a prefix of the new
\* one, or is the start of a build run.
C18_ClearedOnlyByStartBuild ==
    [][IsPrefix(logs, logs') \/ Len(runs') = Len(runs) + 1]_vars

\* C18: every step either keeps the log stream as a prefix of the new one, or
\* is the start of a build run, which leaves the three headers, or is the start
\* of an analysis, which leaves the stream empty.
C18_ClearedByStartBuildOrAnalysis ==
    [][\/ IsPrefix(logs, logs')
       \/ Len(runs') = Len(runs) + 1 /\ Len(logs') = 3
       \/ /\ analysisCalls' = analysisCalls + 1
          /\ step = 1 /\ config.inputValue # ""
          /\ logs' = <<>>]_vars

\* an analysis started from Source after a build: the log of that build is gone
C18_Witness ==
    /\ step = 1
    /\ isAnalyzing
    /\ logs = <<>>
    /\ Len(runs) >= 1
    /\ pendingAnalyses = 1

\* C19: in every step taken while a build run is Running, the log stream
\* before the step is a prefix of the log stream after it.
C19_AppendOnlyWhileRunning ==
    [][(\E r \in 1..Len(runs) : Running(r)) => IsPrefix(logs, logs')]_vars

\* C20: a step in which the report request of a run is answered, and the report
\* field written, is a step of the latest run started, and no run writes the
\* report field twice.
C20_ReportOfCurrentRun ==
    [][\A r \in 1..Len(runs) :
          /\ runs[r].status = "reporting" /\ runs'[r].status = "done" => r = Len(runs)
          /\ runs[r].status = "done" => runs'[r].status = "done"]_vars

\* the report request of run r is answered in this step
ReportAnswered(r) == runs[r].status = "reporting" /\ runs'[r].status = "done"

\* C21: a run whose report request is pending is already Completed, with its
\* timer stopped; the step that answers the request, whatever the answer,
\* leaves isBuilding, the log stream, the step and every run's entries, cursor
\* and timer as they were, and the run Completed; a Completed run stays
\* Completed; and in a state with a pending request every pending timer can
\* fire (a fact of the state alone, so it is tested once for each such state,
\* at the step in which the request fails).
C21_ReportLeavesCompleted ==
    [][\A r \in 1..Len(runs) :
          /\ runs[r].status = "reporting" => Completed(r) /\ ~Running(r)
          /\ Completed(r) => Completed(r)' /\ runs'[r].appended = runs[r].appended
          /\ ReportAnswered(r) =>
                 /\ isBuilding' = isBuilding
                 /\ logs' = logs
                 /\ step' = step
                 /\ \A q \in 1..Len(runs) :
                        /\ runs'[q].appended = runs[q].appended
                        /\ runs'[q].i = runs[q].i
                        /\ runs'[q].timer = runs[q].timer
          /\ ReportAnswered(r) /\ buildReport' = ReportFailed =>
                 \A q \in 1..Len(runs) :
                     Running(q) =>
                         IF runs[q].i < Len(MOCK_BUILD_STEPS)
                         THEN ENABLED TickStep(q, FALSE)
                         ELSE ENABLED TickFinish(q)]_vars

\* the report request of the only run failed: the fallback text is in the
\* report field, the run is Completed and the stream holds what it appended
C21_Witness ==
    /\ Len(runs) = 1
    /\ runs[1].status = "done"
    /\ buildReport = ReportFailed
    /\ ~isBuilding
    /\ logs = runs[1].appended

\* C22: the run started in a step holds the configuration of that moment and
\* its headers are derived from it; the configuration a run holds never
\* changes afterwards; the run that reaches Completed ends with the output
\* path of the app name it holds, whatever the configuration is by then; and
\* no step of a run (tick or report) changes the configuration.
C22_RunUsesSnapshot ==
    [][/\ Len(runs') = Len(runs) + 1 =>
              /\ runs'[Len(runs')].config = config
              /\ runs'[Len(runs')].appended = HeaderEntries(config, Len(runs'))
       /\ \A r \in 1..Len(runs) :
              /\ runs'[r].config = runs[r].config
              /\ Completes(r) =>
                     LET a == runs'[r].appended
                     IN  a[Len(a)].message =
                             "Output: dist/"
                                 \o Join(ReplaceWhitespace(runs[r].config.appName.v))
                                 \o "-release.apk"
       /\ (Len(runs') = Len(runs) /\ runs' # runs) => config' = config]_vars

\* a Completed run whose output path is that of the name it was started
\* with, while the configuration holds the name of a later analysis
C22_Witness ==
    /\ Len(runs) = 1
    /\ Completed(1)
    /\ runs[1].config.appName = ShopName
    /\ config.appName = JsString(MyWebApp)
    /\ logs[Len(logs)].message = "Output: dist/My_Shop-release.apk"
    /\ logs[1].message = "Starting build pipeline for com.shop..."

\* the runs whose interval is pending
PendingTimers == {r \in 1..Len(runs) : Running(r)}

\* C23: isBuilding is true exactly when an interval created by startBuild is
\* pending, and at most one interval is pending; so Configure and Download,
\* rendered when isBuilding is false, are offered only with no interval
\* pending.
C23_IsBuildingIffTimerPending ==
    /\ isBuilding <=> PendingTimers # {}
    /\ Cardinality(PendingTimers) <= 1
    /\ ENABLED Configure => PendingTimers = {}

====
